---- MODULE Spec2Model ----
(***************************************************************************)
(* A model of tree_magic_mini's src/lib.rs: the checker registry, the      *)
(* alias table, the type graph built by graph_init, the recursive walker   *)
(* typegraph_walker and the four public operations match_u8, from_u8,      *)
(* match_filepath and from_filepath.                                       *)
(*                                                                         *)
(* The checkers (mod basetype, mod fdo_magic) are data here: what each     *)
(* returns from get_supported, get_subclasses and get_aliaslist, and the   *)
(* extension of its two tests.  The initial states range over bounded      *)
(* families of such checkers, of files and of call arguments.              *)
(***************************************************************************)
EXTENDS Integers, Sequences, FiniteSets, TLC

VARIABLES
    CHECKERS,   \* the static checker list: a sequence of checker records
    fs,         \* the file system: path -> [ok, content]
    mimetype,   \* the caller's MIME argument
    bytes,      \* the caller's byte buffer
    filepath,   \* the caller's path argument
    TYPE,       \* the lazily built TypeStruct, NotBuilt before first use
    call        \* the last public call and its outcome, Idle when none

vars == <<CHECKERS, fs, mimetype, bytes, filepath, TYPE, call>>

----------------------------------------------------------------------------
(* Bounds of the model *)

\* subclass pairs one checker may declare
MaxPairs == 2
\* longest file content / byte buffer
MaxFileLen == 3
\* depth of recursion the call stack holds before it overflows
StackLimit == 8
\* bytes from_filepath_node reads from the file (2048 in the source, scaled)
ReadLimit == 2

----------------------------------------------------------------------------
(* MIME identifiers *)

\* The identifiers of the model, in the byte order sort_unstable sorts by.
MimeOrder ==
    << "all/all", "all/allfiles", "application/octet-stream", "image/gif",
       "image/png", "image/x-png", "inode/directory", "text/html",
       "text/plain" >>

Mimes == { MimeOrder[i] : i \in 1..Len(MimeOrder) }

Rank(m) == CHOOSE i \in 1..Len(MimeOrder) : MimeOrder[i] = m

\* mimetype.split('/').next()
Toplevel(m) ==
    CASE m \in {"all/all", "all/allfiles"} -> "all"
      [] m = "application/octet-stream" -> "application"
      [] m \in {"image/gif", "image/png", "image/x-png"} -> "image"
      [] m = "inode/directory" -> "inode"
      [] m \in {"text/html", "text/plain"} -> "text"
      [] OTHER -> ""

TYPEORDER ==
    << "image/png", "image/jpeg", "image/gif", "application/zip",
       "application/x-msdos-executable", "application/pdf" >>

\* Outcomes that are not a MIME identifier
None == "None"
\* TYPE before its first use, and call when no call is in progress
NotBuilt == [ nodes |-> <<>>, out |-> <<>> ]
Idle == [ fn |-> "idle" ]
PanicNoRoot == "panic: No filetype definitions are loaded."
PanicUnwrap == "panic: called Option::unwrap() on a None value"
StackOverflow == "abort: stack overflow"

----------------------------------------------------------------------------
(* Sequences and sets *)

Range(s) == { s[i] : i \in 1..Len(s) }

Take(s, n) == IF Len(s) <= n THEN s ELSE SubSeq(s, 1, n)

RemoveAt(s, i) == SubSeq(s, 1, i - 1) \o SubSeq(s, i + 1, Len(s))

RECURSIVE Reverse(_)
Reverse(s) == IF s = <<>> THEN <<>> ELSE Append(Reverse(Tail(s)), Head(s))

RECURSIVE Orderings(_)
\* every order a hash set may be iterated in
Orderings(S) ==
    IF S = {} THEN { <<>> }
    ELSE UNION { { <<x>> \o p : p \in Orderings(S \ {x}) } : x \in S }

RECURSIVE SortedSeq(_)
\* sort_unstable then dedup of a list whose elements are those of S
SortedSeq(S) ==
    IF S = {} THEN <<>>
    ELSE LET m == CHOOSE x \in S : \A y \in S : Rank(x) <= Rank(y)
         IN  <<m>> \o SortedSeq(S \ {m})

IndexOf(s, x) == CHOOSE i \in 1..Len(s) : s[i] = x

EmptyMap == [ m \in {} |-> m ]

\* the maps of at most one entry from K to V, none onto itself
SmallMaps(K, V) ==
    { EmptyMap }
      \cup UNION { { [ m \in {k} |-> v ] : v \in V \ {k} } : k \in K }

----------------------------------------------------------------------------
(* The registry and the alias table *)

RECURSIVE SupportFrom(_, _)
\* the map after checkers 1..i have inserted their types: insert overwrites
SupportFrom(chk, i) ==
    IF i = 0 THEN EmptyMap
    ELSE LET out == SupportFrom(chk, i - 1)
         IN  [ m \in DOMAIN out \cup chk[i].supported |->
                 IF m \in chk[i].supported THEN i ELSE out[m] ]

RECURSIVE SupportFirstSeen(_, _)
SupportFirstSeen(chk, i) ==
    IF i = 0 THEN EmptyMap
    ELSE LET out == SupportFirstSeen(chk, i - 1)
         IN  [ m \in DOMAIN out \cup chk[i].supported |->
                 IF m \in DOMAIN out THEN out[m] ELSE i ]

CheckerSupportFirstSeen == SupportFirstSeen(CHECKERS, Len(CHECKERS))

CHECKER_SUPPORT == SupportFrom(CHECKERS, Len(CHECKERS))

RECURSIVE AliasesFrom(_, _)
\* the map after checkers 1..i were merged by extend: later entries overwrite
AliasesFrom(chk, i) ==
    IF i = 0 THEN EmptyMap
    ELSE LET out == AliasesFrom(chk, i - 1)
             al  == chk[i].aliaslist
         IN  [ m \in DOMAIN out \cup DOMAIN al |->
                 IF m \in DOMAIN al THEN al[m] ELSE out[m] ]

ALIASES == AliasesFrom(CHECKERS, Len(CHECKERS))

get_alias(m) == IF m \in DOMAIN ALIASES THEN ALIASES[m] ELSE m

match_u8_noalias(m, b) ==
    IF m \notin DOMAIN CHECKER_SUPPORT THEN FALSE
    ELSE <<m, b>> \in CHECKERS[CHECKER_SUPPORT[m]].u8

match_u8(m, b) == match_u8_noalias(get_alias(m), b)

match_filepath_noalias(m, p) ==
    IF m \notin DOMAIN CHECKER_SUPPORT THEN FALSE
    ELSE <<m, p>> \in CHECKERS[CHECKER_SUPPORT[m]].path

match_filepath(m, p) == match_filepath_noalias(get_alias(m), p)

----------------------------------------------------------------------------
(* graph_init *)

\* mimelist: every checker's supported types, sorted and deduplicated
MimeList(chk) == SortedSeq(UNION { chk[i].supported : i \in 1..Len(chk) })

EdgeListRaw(chk) == UNION { chk[i].subclasses : i \in 1..Len(chk) }

\* edge_list: the declared pairs both of whose ends are nodes, as
\* (x.0, x.1) node indices
EdgeList(chk) ==
    LET ml == MimeList(chk)
    IN  { <<IndexOf(ml, x[1]), IndexOf(ml, x[2])>> :
            x \in { y \in EdgeListRaw(chk) :
                      y[1] \in Range(ml) /\ y[2] \in Range(ml) } }

\* the nodes once the four structural types are ensured, in index order
NodeList(chk) ==
    LET ml  == MimeList(chk)
        add(m) == IF m \in Range(ml) THEN <<>> ELSE <<m>>
    IN  ml \o add("text/plain") \o add("application/octet-stream")
           \o add("all/all") \o add("all/allfiles")

\* graph.externals(Incoming): the nodes no edge points to, in index order
Externals(nodes, edges) ==
    LET free == { n \in 1..Len(nodes) : \A e \in edges : e[2] # n }
    IN  SelectSeq([ i \in 1..Len(nodes) |-> i ], LAMBDA n : n \in free)

\* edge_list_2: one edge from a structural node to every other root
EdgeList2(chk) ==
    LET nodes == NodeList(chk)
        node_text     == IndexOf(nodes, "text/plain")
        node_octet    == IndexOf(nodes, "application/octet-stream")
        node_allall   == IndexOf(nodes, "all/all")
        node_allfiles == IndexOf(nodes, "all/allfiles")
        roots == Range(Externals(nodes, EdgeList(chk)))
                   \ {node_text, node_octet, node_allfiles, node_allall}
    IN  { IF Toplevel(nodes[n]) = "text" THEN <<node_text, n>>
          ELSE IF Toplevel(nodes[n]) = "inode" THEN <<node_allall, n>>
          ELSE <<node_octet, n>> : n \in roots }

\* The graph after both extend_with_edges calls, the hash sets iterated in
\* the orders ord1 and ord2.  out[n] is neighbors_directed(n, Outgoing): the
\* targets of n's edges, the edge added last first.
graph_init(chk, ord1, ord2) ==
    LET nodes == NodeList(chk)
        edges == ord1 \o ord2
        outOf(n) == LET mine == SelectSeq(edges, LAMBDA e : e[1] = n)
                    IN  Reverse([ i \in 1..Len(mine) |-> mine[i][2] ])
    IN  [ nodes |-> nodes, out |-> [ n \in 1..Len(nodes) |-> outOf(n) ] ]

GraphEdges(g) ==
    UNION { { <<n, g.out[n][i]>> : i \in 1..Len(g.out[n]) } :
              n \in 1..Len(g.nodes) }

----------------------------------------------------------------------------
(* typegraph_walker *)

IsPriority(order, m) == \E i \in 1..Len(order) : order[i] = m

RECURSIVE ReorderFrom(_, _, _, _)
\* the loop "for i in 0..children.len()" from index i on
ReorderFrom(g, children, order, i) ==
    IF i > Len(children) THEN children
    ELSE LET x == children[i]
         IN  IF IsPriority(order, g.nodes[x])
             THEN ReorderFrom(g, <<x>> \o RemoveAt(children, i), order, i + 1)
             ELSE ReorderFrom(g, children, order, i + 1)

RECURSIVE ReorderLosing(_, _, _, _)
ReorderLosing(g, children, order, i) ==
    IF i > Len(children) THEN children
    ELSE LET x == children[i]
         IN  IF IsPriority(order, g.nodes[x])
             THEN ReorderLosing(g, RemoveAt(children, i), order, i)
             ELSE ReorderLosing(g, children, order, i + 1)

\* remove(i) without the insert(0, x) that follows it
ReorderDropsPriority(g, children, order) ==
    ReorderLosing(g, children, order, 1)

Reorder(g, children, order) == ReorderFrom(g, children, order, 1)

RECURSIVE typegraph_walker(_, _, _, _, _)
RECURSIVE WalkChildren(_, _, _, _, _, _, _)
RECURSIVE WalkChildrenNoPrune(_, _, _, _, _, _, _)

\* the loop descending into a child whatever matchfn said of it
WalkChildrenNoPrune(g, children, i, matchfn, depth, order, tested) ==
    IF i > Len(children) THEN [ res |-> None, tested |-> tested ]
    ELSE LET childnode == children[i]
             mime      == g.nodes[childnode]
             seen      == Append(tested, [ node |-> childnode,
                                             hit  |-> matchfn[mime] ])
             sub       == typegraph_walker(g, childnode, matchfn,
                                           depth + 1, order)
         IN  IF matchfn[mime] \/ sub.res # None
             THEN [ res    |-> IF sub.res = None THEN mime ELSE sub.res,
                    tested |-> seen \o sub.tested ]
             ELSE WalkChildrenNoPrune(g, children, i + 1, matchfn, depth,
                                      order, seen \o sub.tested)

\* The loop "for childnode in children" from children[i] on.  res is the
\* walker's return value (a MIME, None, or StackOverflow when the recursion
\* outgrows the stack); tested lists the invocations of matchfn in order,
\* each with the node it was invoked on and what it returned.
WalkChildren(g, children, i, matchfn, depth, order, tested) ==
    IF i > Len(children) THEN [ res |-> None, tested |-> tested ]
    ELSE LET childnode == children[i]
             mime      == g.nodes[childnode]
             seen      == Append(tested, [ node |-> childnode,
                                             hit  |-> matchfn[mime] ])
         IN  IF matchfn[mime]
             THEN LET sub == typegraph_walker(g, childnode, matchfn,
                                              depth + 1, order)
                  IN  [ res    |-> IF sub.res = None THEN mime ELSE sub.res,
                        tested |-> seen \o sub.tested ]
             ELSE WalkChildren(g, children, i + 1, matchfn, depth, order, seen)

\* typegraph_walker, the priority list (TYPEORDER in the source) being the
\* parameter order; depth counts the frames of the recursion.
typegraph_walker(g, parentnode, matchfn, depth, order) ==
    IF depth > StackLimit THEN [ res |-> StackOverflow, tested |-> <<>> ]
    ELSE WalkChildren(g, Reorder(g, g.out[parentnode], order),
                      1, matchfn, depth, order, <<>>)

----------------------------------------------------------------------------
(* The public operations *)

U8Matcher(b) == [ m \in Mimes |-> match_u8_noalias(m, b) ]

PathMatcher(p) == [ m \in Mimes |-> match_filepath_noalias(m, p) ]

from_u8_node(g, parentnode, b) ==
    typegraph_walker(g, parentnode, U8Matcher(b), 1, TYPEORDER)

\* TYPE.graph.externals(Incoming).next()
RootOf(g) ==
    LET ext == Externals(g.nodes, GraphEdges(g))
    IN  IF ext = <<>> THEN 0 ELSE ext[1]

\* from_u8: [out, start, tested]
from_u8(g, b) ==
    LET node == RootOf(g)
    IN  IF node = 0
        THEN [ out |-> PanicNoRoot, start |-> 0, tested |-> <<>> ]
        ELSE LET w == from_u8_node(g, node, b)
             IN  [ out    |-> IF w.res = None THEN PanicUnwrap ELSE w.res,
                   start  |-> node,
                   tested |-> w.tested ]

\* read_bytes: Ok(the first bytecount bytes) or Err when the file cannot be
\* opened or read
read_bytes(p, bytecount) ==
    IF fs[p].ok THEN [ ok |-> TRUE, data |-> Take(fs[p].content, bytecount) ]
    ELSE [ ok |-> FALSE, data |-> <<>> ]

\* the walk by path tests whatever application/octet-stream says of the file
from_filepath_node_by_path(g, parentnode, p) ==
    typegraph_walker(g, parentnode, PathMatcher(p), 1, TYPEORDER)

from_filepath_node(g, parentnode, p) ==
    IF ~ match_filepath("application/octet-stream", p)
    THEN typegraph_walker(g, parentnode, PathMatcher(p), 1, TYPEORDER)
    ELSE LET b == read_bytes(p, ReadLimit)
         IN  IF ~ b.ok THEN [ res |-> None, tested |-> <<>> ]
             ELSE from_u8_node(g, parentnode, b.data)

from_filepath(g, p) ==
    LET node == RootOf(g)
    IN  IF node = 0
        THEN [ out |-> PanicNoRoot, start |-> 0, tested |-> <<>> ]
        ELSE LET w == from_filepath_node(g, node, p)
             IN  [ out |-> w.res, start |-> node, tested |-> w.tested ]

----------------------------------------------------------------------------
(* Initial states: bounded families of checkers, files and arguments *)

RECURSIVE Zeros(_)
Zeros(n) == IF n = 0 THEN <<>> ELSE Append(Zeros(n - 1), 0)

Buffers == { Zeros(n) : n \in 0..MaxFileLen }

Paths == { "f" }

EmptyFile == [ ok |-> TRUE, content |-> <<>> ]

Files == { [ ok |-> FALSE, content |-> <<>> ] }
           \cup { [ ok |-> TRUE, content |-> c ] : c \in Buffers }

Checker(sup, sub, al, u8, path) ==
    [ supported |-> sup, subclasses |-> sub, aliaslist |-> al,
      u8 |-> u8, path |-> path ]

EmptyChecker == Checker({}, {}, EmptyMap, {}, {})

\* a checker whose two tests hold of the types in yes whatever the input
Uniform(sup, sub, al, yes) ==
    Checker(sup, sub, al, yes \X Buffers, yes \X Paths)

RECURSIVE UpTo(_, _)
\* the subsets of S of at most k elements
UpTo(S, k) ==
    IF k = 0 THEN { {} }
    ELSE LET smaller == UpTo(S, k - 1)
         IN  smaller \cup { P \cup {x} : P \in smaller, x \in S }

Start(chk, files, m, b, p) ==
    /\ CHECKERS = chk
    /\ fs = files
    /\ mimetype = m
    /\ bytes = b
    /\ filepath = p
    /\ TYPE = NotBuilt
    /\ call = Idle

WalkTypes ==
    { "all/all", "application/octet-stream", "image/gif", "image/png" }

\* one checker declaring any types among WalkTypes and up to MaxPairs
\* subclass pairs among them, with any test
InitWalk ==
    \E S \in SUBSET WalkTypes :
      \E P \in UpTo(S \X S, MaxPairs), Y \in SUBSET S :
        Start(<<Uniform(S, P, EmptyMap, Y), EmptyChecker>>,
              [ p \in Paths |-> EmptyFile ], "image/png", <<>>, "f")

AttachTypes ==
    { "all/allfiles", "image/png", "inode/directory", "text/html",
      "text/plain" }

\* one checker declaring any types among AttachTypes and at most one pair,
\* whose ends it need not support
InitAttach ==
    \E S \in SUBSET AttachTypes :
      \E P \in UpTo(AttachTypes \X AttachTypes, 1), Y \in SUBSET S :
        Start(<<Uniform(S, P, EmptyMap, Y), EmptyChecker>>,
              [ p \in Paths |-> EmptyFile ], "text/html", <<>>, "f")

RegistryTypes == { "image/gif", "image/png" }

Idents == RegistryTypes \cup { "image/x-png" }

\* two checkers that may declare the same types and aliases, the second
\* declaring application/octet-stream (always matching) as well
InitRegistry ==
    \E S1 \in SUBSET RegistryTypes, S2 \in SUBSET RegistryTypes :
      \E Y1 \in SUBSET S1, Y2 \in SUBSET S2,
         A1 \in SmallMaps(Idents, Idents), A2 \in SmallMaps(Idents, Idents),
         m \in Idents :
        Start(<<Uniform(S1, {}, A1, Y1),
                Uniform(S2 \cup {"application/octet-stream"}, {}, A2,
                        Y2 \cup {"application/octet-stream"})>>,
              [ p \in Paths |-> EmptyFile ], m, <<>>, "f")

\* image/png under application/octet-stream, with any byte test of
\* image/png and any path tests, any file and any buffer
InitFile ==
    \E U \in SUBSET Buffers, Y1 \in SUBSET {"image/png"},
       Y2 \in SUBSET {"application/octet-stream"},
       file \in Files, b \in Buffers :
        Start(<<Checker({"image/png"}, {}, EmptyMap,
                        {"image/png"} \X U, Y1 \X Paths),
                Checker({"application/octet-stream"}, {}, EmptyMap,
                        {"application/octet-stream"} \X Buffers,
                        Y2 \X Paths)>>,
              [ p \in Paths |-> file ], "image/png", b, "f")

Init == InitFile \/ InitAttach \/ InitRegistry \/ InitWalk

----------------------------------------------------------------------------
(* The calls *)

\* lazy_static TYPE: built by graph_init on first use, the iteration orders
\* of the two edge sets being whatever the hasher gives
Built ==
    IF TYPE.nodes # <<>> THEN { TYPE }
    ELSE { graph_init(CHECKERS, ord1, ord2) :
             ord1 \in Orderings(EdgeList(CHECKERS)),
             ord2 \in Orderings(EdgeList2(CHECKERS) \ EdgeList(CHECKERS)) }

MatchU8 ==
    /\ call.fn = "idle"
    /\ call' = [ fn |-> "match_u8", out |-> match_u8(mimetype, bytes) ]
    /\ UNCHANGED <<CHECKERS, fs, mimetype, bytes, filepath, TYPE>>

FromU8 ==
    /\ call.fn = "idle"
    /\ \E g \in Built :
          /\ TYPE' = g
          /\ call' = [ fn |-> "from_u8" ] @@ from_u8(g, bytes)
    /\ UNCHANGED <<CHECKERS, fs, mimetype, bytes, filepath>>

MatchFilepath ==
    /\ call.fn = "idle"
    /\ call' = [ fn |-> "match_filepath",
                 out |-> match_filepath(mimetype, filepath) ]
    /\ UNCHANGED <<CHECKERS, fs, mimetype, bytes, filepath, TYPE>>

FromFilepath ==
    /\ call.fn = "idle"
    /\ \E g \in Built :
          /\ TYPE' = g
          /\ call' = [ fn |-> "from_filepath" ] @@ from_filepath(g, filepath)
    /\ UNCHANGED <<CHECKERS, fs, mimetype, bytes, filepath>>

\* the caller takes the result
Return ==
    /\ call.fn # "idle"
    /\ call' = Idle
    /\ UNCHANGED <<CHECKERS, fs, mimetype, bytes, filepath, TYPE>>

Next == MatchU8 \/ FromU8 \/ MatchFilepath \/ FromFilepath \/ Return

Spec == Init /\ [][Next]_vars

----------------------------------------------------------------------------
(* Vocabulary of the properties *)

Structural ==
    { "text/plain", "application/octet-stream", "all/all", "all/allfiles" }

\* the types some checker declares support for
Registered == UNION { CHECKERS[i].supported : i \in 1..Len(CHECKERS) }

IsBuilt == TYPE.nodes # <<>>

Children(g, n) == Range(g.out[n])

RECURSIVE Closure(_, _)
\* S and everything reached from S along the graph's edges
Closure(g, S) ==
    LET more == S \cup UNION { Children(g, n) : n \in S }
    IN  IF more = S THEN S ELSE Closure(g, more)

\* the nodes reached from n along one edge or more
Descendants(g, n) == Closure(g, Children(g, n))

Parents(g, n) == { e[1] : e \in { x \in GraphEdges(g) : x[2] = n } }

SingleParent(g) ==
    \A n \in 1..Len(g.nodes) : Cardinality(Parents(g, n)) <= 1

Declarers(m) == { i \in 1..Len(CHECKERS) : m \in CHECKERS[i].supported }

First(S) == CHOOSE i \in S : \A j \in S : i <= j

Last(S) == CHOOSE i \in S : \A j \in S : j <= i

\* whether the last call ran the walker, and the predicate it ran it with
Walked ==
    \/ call.fn = "from_u8" /\ call.start # 0
    \/ /\ call.fn = "from_filepath" /\ call.start # 0
       /\ match_filepath("application/octet-stream", filepath)
            => fs[filepath].ok

WalkMatcher ==
    IF call.fn = "from_u8" THEN U8Matcher(bytes)
    ELSE IF match_filepath("application/octet-stream", filepath)
         THEN U8Matcher(read_bytes(filepath, ReadLimit).data)
         ELSE PathMatcher(filepath)

\* what the walker returned to the call
WalkResult == IF call.out = PanicUnwrap THEN None ELSE call.out

\* the same walk with the priority list emptied
UnorderedResult ==
    typegraph_walker(TYPE, call.start, WalkMatcher, 1, <<>>).res

\* no node has two children that both match
OneMatchPerNode ==
    \A n \in 1..Len(TYPE.nodes) :
        Cardinality({ c \in Children(TYPE, n) :
                        WalkMatcher[TYPE.nodes[c]] }) <= 1

----------------------------------------------------------------------------
(* The properties *)

\* C1: a type from_u8 returns for the bytes matches them under match_u8.
C1_IdentifiedTypeMatches ==
    (call.fn = "from_u8" /\ call.out \in Mimes)
        => match_u8(call.out, bytes)

\* C2: when the byte test fails for every registered type that is not
\* structural, from_u8 returns text/plain, application/octet-stream or
\* all/all, and from_u8 ends fatally only for want of a root.
C2_FallbackIsStructural ==
    /\ ( /\ call.fn = "from_u8"
         /\ \A m \in Registered \ Structural : ~ match_u8_noalias(m, bytes) )
          => call.out \in { "text/plain", "application/octet-stream",
                            "all/all" }
    /\ (call.fn = "from_u8" /\ call.out \notin Mimes)
          => call.out = PanicNoRoot

\* C3: in the graph built from a non-empty set of supported types, every
\* registered type is reached from all/all, and all/all is the only root.
C3_NoOrphans ==
    (IsBuilt /\ Registered # {}) =>
        LET root == IndexOf(TYPE.nodes, "all/all")
        IN  /\ \A n \in 1..Len(TYPE.nodes) :
                  TYPE.nodes[n] \in Registered
                      => n = root \/ n \in Descendants(TYPE, root)
            /\ Externals(TYPE.nodes, GraphEdges(TYPE)) = <<root>>

\* C4: resolving an alias twice gives what resolving it once gives, so
\* what match_u8 answered for an identifier is what it answers for the
\* identifier's resolution.
C4_AliasIdempotent ==
    call.fn = "match_u8" =>
        /\ get_alias(get_alias(mimetype)) = get_alias(mimetype)
        /\ call.out = match_u8(get_alias(mimetype), bytes)

C6_FastPathEquivalence ==
    ( /\ call.fn = "from_filepath"
      /\ fs[filepath].ok
      /\ match_filepath("application/octet-stream", filepath) )
    => LET B == Take(fs[filepath].content, ReadLimit)
           r == from_u8(TYPE, B).out
       IN  /\ call.out \in Mimes <=> r \in Mimes
           /\ call.out \in Mimes => call.out = r

\* a file longer than the prefix read, identified through the fast path
C6_Witness ==
    /\ call.fn = "from_filepath"
    /\ fs[filepath].ok
    /\ Len(fs[filepath].content) > ReadLimit
    /\ match_filepath("application/octet-stream", filepath)
    /\ ~ match_filepath("image/png", filepath)
    /\ call.out = "image/png"

\* C7 as stated: once the predicate has returned false for a type, it is
\* not invoked on any descendant of that type in the same walk.
C7_NoDescendantTested ==
    Walked =>
        \A i \in 1..Len(call.tested), j \in 1..Len(call.tested) :
            (i < j /\ ~ call.tested[i].hit)
                => call.tested[j].node
                     \notin Descendants(TYPE, call.tested[i].node)

\* C7 amended: the predicate is invoked on a type only as a child of the
\* start node or of a type for which it returned true earlier in the walk;
\* and where no type has more than one parent, it is invoked on no
\* descendant of a type for which it returned false.
C7_TestedBelowMatchesOnly ==
    Walked =>
        /\ \A j \in 1..Len(call.tested) :
              \/ call.tested[j].node \in Children(TYPE, call.start)
              \/ \E i \in 1..(j - 1) :
                    /\ call.tested[i].hit
                    /\ call.tested[j].node
                         \in Children(TYPE, call.tested[i].node)
        /\ SingleParent(TYPE) =>
              \A i \in 1..Len(call.tested), j \in 1..Len(call.tested) :
                  (i < j /\ ~ call.tested[i].hit)
                      => call.tested[j].node
                           \notin Descendants(TYPE, call.tested[i].node)

\* a walk that passed over a non-matching type with children and went on to
\* find a type
C7_Witness ==
    /\ Walked
    /\ SingleParent(TYPE)
    /\ call.out \in Mimes
    /\ \E i \in 1..Len(call.tested) :
          /\ ~ call.tested[i].hit
          /\ Children(TYPE, call.tested[i].node) # {}

\* C8 as stated: the walk returns what the walk with the priority list
\* emptied returns.
C8_OrderNeverMatters ==
    Walked => WalkResult = UnorderedResult

\* C8 amended: with the priority list emptied the walk finds a match
\* exactly when it does with the list, and returns the same type whenever no
\* node has two children that both match the input.
C8_OrderBreaksTiesOnly ==
    Walked =>
        /\ WalkResult = None <=> UnorderedResult = None
        /\ OneMatchPerNode => WalkResult = UnorderedResult

\* a walk whose children were reordered and that found a type, no node
\* having two matching children
C8_Witness ==
    /\ Walked
    /\ OneMatchPerNode
    /\ call.out \in Mimes
    /\ Reorder(TYPE, TYPE.out[call.start], TYPEORDER) # TYPE.out[call.start]

\* C9: from_u8 and from_filepath start the walker at the node all/all.
C9_StartsAtAllAll ==
    (call.fn \in {"from_u8", "from_filepath"} /\ call.start # 0)
        => TYPE.nodes[call.start] = "all/all"

\* C10: every walk returns a type or no match; its recursion does not go on
\* until the stack is exhausted.
C10_WalkerReturns ==
    call.fn \in {"from_u8", "from_filepath"} => call.out # StackOverflow

====
